---- MODULE Spec2Model ----
(***************************************************************************)
(* libndts native core (src/ndtsdb/native/ndts.c): counting sort, gather,  *)
(* snapshot boundaries, the Gorilla XOR codec and the io_uring batch       *)
(* reader, as state machines whose actions are the exported C functions.   *)
(*                                                                         *)
(* Arrays are functions over 0..n-1, as in C.  A double timestamp t is     *)
(* represented by the integer 2t (half units), so that .0 and .5 values    *)
(* and their differences are exact, as they are in IEEE-754 arithmetic.    *)
(* A 64-bit word (uint64_t, or a double seen through double_to_bits) is a  *)
(* sequence of 64 bits, most significant first; a byte buffer is the       *)
(* sequence of its bits, eight per byte, high bit of each byte first.      *)
(***************************************************************************)
EXTENDS Integers, Sequences, FiniteSets, TLC

VARIABLES
    \* counting_sort_argsort_f64 / counting_sort_apply
    data, n, min_val, max_val, range, count, out_indices, sort_pc,
    \* gather_f64 / gather_i32 / gather_batch4: the four source columns, the
    \* index array, the outputs of the four single-column calls (one_*) and
    \* the outputs of the fused call (*_out)
    ts_src, sym_src, price_src, vol_src, indices, g_n,
    one_ts, one_sym, one_price, one_vol,
    ts_out, sym_out, price_out, vol_out, gather_pc,
    \* find_snapshot_boundaries: the column, its length, the caller's
    \* out_starts array and the returned snapshot count
    sorted_ts, b_n, out_starts, b_count, bound_pc,
    \* gorilla_compress_f64: the input doubles (bit patterns), their number,
    \* the bytes written to out_buffer and the returned byte length
    c_data, c_n, out_buffer, comp_len,
    \* gorilla_decompress_f64 on the whole stream: max_count, the values
    \* written to out_data and the returned count
    max_count, full_out, full_count,
    \* gorilla_decompress_f64 on the first buffer_len bytes, same max_count
    buffer_len, out_data, d_count,
    \* what this build's << yields for a shift count outside 0..63
    shl_ub, codec_pc,
    \* uring_init / uring_batch_read / uring_destroy: the caller's struct
    \* uring_ctx, the ring memory it points into (shared with the kernel),
    \* the descriptor and mappings the kernel holds for this process, the
    \* count argument, the file read and the return value of the last
    \* uring_batch_read,
    \* the return value of uring_init, and the number of batch calls made
    ctx, ring, os, req_count, req_file, batch_ret, init_ret, batches,
    uring_pc

sortVars == <<data, n, min_val, max_val, range, count, out_indices, sort_pc>>

gatherSrc == <<ts_src, sym_src, price_src, vol_src, indices, g_n>>

gatherVars ==
    <<gatherSrc, one_ts, one_sym, one_price, one_vol,
      ts_out, sym_out, price_out, vol_out, gather_pc>>

boundVars == <<sorted_ts, b_n, out_starts, b_count, bound_pc>>

codecVars ==
    <<c_data, c_n, out_buffer, comp_len, max_count, full_out, full_count,
      buffer_len, out_data, d_count, shl_ub, codec_pc>>

uringVars ==
    <<ctx, ring, os, req_count, req_file, batch_ret, init_ret, batches,
      uring_pc>>

vars == <<sortVars, gatherVars, boundVars, codecVars, uringVars>>

\* what a call into one component leaves alone
notSort == <<gatherVars, boundVars, codecVars, uringVars>>
notGather == <<sortVars, boundVars, codecVars, uringVars>>
notBound == <<sortVars, gatherVars, codecVars, uringVars>>
notCodec == <<sortVars, gatherVars, boundVars, uringVars>>
notUring == <<sortVars, gatherVars, boundVars, codecVars>>

\* ------------------------------------------------------------------ bounds

\* longest timestamp column handed to the sort
SortMaxN == 4
\* largest timestamp, in half units (5 is 2.5)
MaxTs == 5
\* longest column handed to the gathers: one unrolled block and a tail row
GatherMaxN == 5
\* longest column handed to find_snapshot_boundaries
BoundMaxN == 4
\* longest sequence handed to gorilla_compress_f64
CodecMaxN == 3

\* ---------------------------------------------------------- counting sort

\* an array that the caller allocated and nothing has written yet
Unwritten == -1

\* (size_t)(d) for a non-negative double d given in half units: truncation
TruncToSizeT(d) == d \div 2

\* ndts.c:79-82, the min/max scan from index i on
RECURSIVE MinMaxLoop(_, _, _, _, _)
MinMaxLoop(d, len, i, mn, mx) ==
    IF i >= len THEN <<mn, mx>>
    ELSE MinMaxLoop(d, len, i + 1,
                    IF d[i] < mn THEN d[i] ELSE mn,
                    IF d[i] > mx THEN d[i] ELSE mx)

\* Mutant of RangeOf: the range leaves out the bucket of the maximum.
RangeOfNoLast(mn, mx) == TruncToSizeT(mx - mn)

\* size_t range = (size_t)(max_val - min_val) + 1
RangeOf(mn, mx) == TruncToSizeT(mx - mn) + 1

\* the bucket of one row: (size_t)(data[idx] - min_val)
Bucket(d, idx, mn) == TruncToSizeT(d[idx] - mn)

\* ndts.c:120-122, the histogram pass from row i on
RECURSIVE HistogramLoop(_, _, _, _, _)
HistogramLoop(d, len, mn, cnt, i) ==
    IF i >= len THEN cnt
    ELSE HistogramLoop(d, len, mn,
                       [cnt EXCEPT ![Bucket(d, i, mn)] = @ + 1], i + 1)

\* Mutant of PrefixLoop: the running total is never carried into count[i].
PrefixLoopNoCarry(cnt, rng, i) == cnt

\* ndts.c:125-127, the prefix sum from bucket i on
RECURSIVE PrefixLoop(_, _, _)
PrefixLoop(cnt, rng, i) ==
    IF i >= rng THEN cnt
    ELSE PrefixLoop([cnt EXCEPT ![i] = @ + cnt[i - 1]], rng, i + 1)

\* Mutant of PlaceLoop: the rows are placed first to last.
RECURSIVE PlaceLoopForward(_, _, _, _, _, _)
PlaceLoopForward(d, len, mn, cnt, out, i) ==
    IF i <= 0 THEN [count |-> cnt, out |-> out]
    ELSE LET idx == len - i
             bucket == Bucket(d, idx, mn)
             c == cnt[bucket] - 1
         IN  PlaceLoopForward(d, len, mn, [cnt EXCEPT ![bucket] = c],
                              [out EXCEPT ![c] = idx], i - 1)

\* Mutant of PlaceLoop: the rank is stored at the row (the inverse permutation).
RECURSIVE PlaceLoopInverse(_, _, _, _, _, _)
PlaceLoopInverse(d, len, mn, cnt, out, i) ==
    IF i <= 0 THEN [count |-> cnt, out |-> out]
    ELSE LET idx == i - 1
             bucket == Bucket(d, idx, mn)
             c == cnt[bucket] - 1
         IN  PlaceLoopInverse(d, len, mn, [cnt EXCEPT ![bucket] = c],
                              [out EXCEPT ![idx] = c], i - 1)

\* ndts.c:130-134, the placement pass: i runs from len down to 1, idx = i-1
RECURSIVE PlaceLoop(_, _, _, _, _, _)
PlaceLoop(d, len, mn, cnt, out, i) ==
    IF i <= 0 THEN [count |-> cnt, out |-> out]
    ELSE LET idx == i - 1
             bucket == Bucket(d, idx, mn)
             c == cnt[bucket] - 1
         IN  PlaceLoop(d, len, mn, [cnt EXCEPT ![bucket] = c],
                       [out EXCEPT ![c] = idx], i - 1)

\* counting_sort_argsort_f64: <<min, max, returned range>>
Argsort(d, len) ==
    IF len = 0 THEN [min |-> 0, max |-> 0, range |-> 0]
    ELSE LET mm == MinMaxLoop(d, len, 1, d[0], d[0])
         IN  [min |-> mm[1], max |-> mm[2], range |-> RangeOf(mm[1], mm[2])]

\* counting_sort_apply: the count buffer and out_indices it leaves
Apply(d, len, mn, cnt, rng, out) ==
    LET zeroed == [b \in 0..(rng - 1) |-> 0]
        hist == HistogramLoop(d, len, mn, zeroed, 0)
        cum == PrefixLoop(hist, rng, 1)
    IN  PlaceLoop(d, len, mn, cum, out, len)

Timestamps == 0..MaxTs

\* the other components take no part in a run of this one
SortIdle ==
    /\ n = 0 /\ data = << >> /\ min_val = 0 /\ max_val = 0 /\ range = 0
    /\ count = << >> /\ out_indices = << >> /\ sort_pc = "idle"

GatherIdle ==
    /\ g_n = 0 /\ indices = << >>
    /\ ts_src = << >> /\ sym_src = << >> /\ price_src = << >> /\ vol_src = << >>
    /\ one_ts = << >> /\ one_sym = << >> /\ one_price = << >> /\ one_vol = << >>
    /\ ts_out = << >> /\ sym_out = << >> /\ price_out = << >> /\ vol_out = << >>
    /\ gather_pc = "idle"

BoundIdle ==
    /\ b_n = 0 /\ sorted_ts = << >> /\ out_starts = << >> /\ b_count = 0
    /\ bound_pc = "idle"

CodecIdle ==
    /\ c_n = 0 /\ c_data = << >> /\ out_buffer = << >> /\ comp_len = 0
    /\ max_count = 0 /\ full_out = << >> /\ full_count = 0
    /\ buffer_len = 0 /\ out_data = << >> /\ d_count = 0
    /\ shl_ub = "unused" /\ codec_pc = "idle"

UringIdle ==
    /\ ctx = << >> /\ ring = << >> /\ os = << >> /\ req_count = 0
    /\ req_file = 0
    /\ batch_ret = 0 /\ init_ret = 0 /\ batches = 0 /\ uring_pc = "idle"

SortInit ==
    /\ GatherIdle /\ BoundIdle /\ CodecIdle /\ UringIdle
    /\ n \in 0..SortMaxN
    /\ data \in [0..(n - 1) -> Timestamps]
    \* *out_min and *out_max hold nothing of the sort's before the call
    /\ min_val = Unwritten
    /\ max_val = Unwritten
    /\ range = 0
    /\ count = << >>
    /\ out_indices = [i \in 0..(n - 1) |-> Unwritten]
    /\ sort_pc = "start"

\* the caller asks for min, max and range, then allocates count[range]
SortArgsort ==
    /\ sort_pc = "start"
    /\ LET r == Argsort(data, n)
       IN  /\ min_val' = r.min
           /\ max_val' = r.max
           /\ range' = r.range
           /\ count' = [b \in 0..(r.range - 1) |-> Unwritten]
    /\ sort_pc' = "ranged"
    /\ UNCHANGED <<data, n, out_indices, notSort>>

\* the caller applies the sort with the min and range it was given
SortApply ==
    /\ sort_pc = "ranged"
    /\ LET r == Apply(data, n, min_val, count, range, out_indices)
       IN  /\ count' = r.count
           /\ out_indices' = r.out
    /\ sort_pc' = "sorted"
    /\ UNCHANGED <<data, n, min_val, max_val, range, notSort>>

SortNext == SortArgsort \/ SortApply

SpecSort == SortInit /\ [][SortNext]_vars

\* ------------------------------------------------------- claims on the sort

Sorted == sort_pc = "sorted"

\* the column holds a tie and two different values, and is not in order
HasTieAndDisorder ==
    /\ \E i, j \in 0..(n - 1) : i < j /\ data[i] = data[j]
    /\ \E i, j \in 0..(n - 1) : i < j /\ data[i] > data[j]

\* C2: after counting_sort_apply with the min and range of
\* counting_sort_argsort_f64 on the same non-empty column, every index
\* 0..n-1 appears exactly once in out_indices.
C2_PermutationValid ==
    (Sorted /\ n >= 1) =>
        \A k \in 0..(n - 1) :
            Cardinality({i \in 0..(n - 1) : out_indices[i] = k}) = 1

C2_Witness ==
    /\ Sorted /\ n >= 3 /\ range >= 2
    /\ \E i \in 0..(n - 1) : out_indices[i] # i

\* C3: two output positions i < j that hold rows with equal timestamps hold
\* them in input order: out_indices[i] < out_indices[j].
C3_Stable ==
    Sorted =>
        \A i, j \in 0..(n - 1) :
            (i < j /\ data[out_indices[i]] = data[out_indices[j]])
                => out_indices[i] < out_indices[j]

C3_Witness ==
    /\ Sorted /\ HasTieAndDisorder
    /\ \E i, j \in 0..(n - 1) :
          /\ i < j /\ out_indices[i] # i /\ out_indices[j] # j
          /\ data[out_indices[i]] = data[out_indices[j]]

\* the sorted column is ascending by value
Ascending ==
    \A i \in 0..(n - 2) : data[out_indices[i]] <= data[out_indices[i + 1]]

\* the sorted column is ascending by bucket (size_t)(data - min)
BucketAscending ==
    \A i \in 0..(n - 2) :
        Bucket(data, out_indices[i], min_val)
            <= Bucket(data, out_indices[i + 1], min_val)

\* every timestamp is a whole number of units above the minimum
IntegralOffsets == \A i \in 0..(n - 1) : (data[i] - min_val) % 2 = 0

\* C4 as claimed: the permutation sorts every column of finite timestamps,
\* integral or fractional, ascending.
C4_AscendingAlways == Sorted => Ascending

\* C4 as amended: the permutation orders every column by the bucket
\* (size_t)(data - min), and sorts it ascending by value when every timestamp
\* lies a whole number of units above the minimum.
C4_AscendingIntegral ==
    Sorted => (BucketAscending /\ (IntegralOffsets => Ascending))

C4_Witness ==
    /\ Sorted /\ n >= 3 /\ HasTieAndDisorder /\ IntegralOffsets
    /\ max_val - min_val >= 4

\* the indices into count[] that the histogram pass and the placement pass
\* of counting_sort_apply compute for this column and this min_val
BucketsUsed == {Bucket(data, i, min_val) : i \in 0..(n - 1)}

\* the values --count[bucket] takes in the placement pass from i down, which
\* are the positions of out_indices the pass writes
RECURSIVE PlacePositions(_, _, _, _, _)
PlacePositions(d, len, mn, cnt, i) ==
    IF i <= 0 THEN {}
    ELSE LET bucket == Bucket(d, i - 1, mn)
             c == cnt[bucket] - 1
         IN  {c} \cup PlacePositions(d, len, mn, [cnt EXCEPT ![bucket] = c],
                                     i - 1)

\* count[] as the placement pass of this call finds it
CumulativeCounts ==
    PrefixLoop(HistogramLoop(data, n, min_val, [b \in 0..(range - 1) |-> 0], 0),
               range, 1)

PositionsWritten == PlacePositions(data, n, min_val, CumulativeCounts, n)

\* C12: with min and range from counting_sort_argsort_f64 on the same
\* column, every bucket index counting_sort_apply uses lies in [0, range)
\* and every position it writes in out_indices lies in [0, n); for n = 0
\* the sort reports min = max = 0 and writes nothing.
C12_IndicesInBounds ==
    /\ sort_pc \in {"ranged", "sorted"} =>
          /\ BucketsUsed \subseteq 0..(range - 1)
          /\ DOMAIN count = 0..(range - 1)
          /\ n = 0 => (min_val = 0 /\ max_val = 0)
    /\ Sorted =>
          /\ PositionsWritten \subseteq 0..(n - 1)
          /\ n = 0 => (out_indices = << >> /\ count = << >>)

\* a column with a fractional maximum: its row lands in the last bucket, and
\* the placement pass writes the first and the last position
C12_Witness ==
    /\ Sorted /\ n >= 3 /\ range >= 3
    /\ (max_val - min_val) % 2 = 1
    /\ range - 1 \in BucketsUsed
    /\ PositionsWritten = 0..(n - 1)
    /\ Cardinality(BucketsUsed) < n

\* ------------------------------------------------------------------ gather

\* Mutant of GatherF64Tail: the n mod 4 rows after the unrolled loop are skipped.
GatherF64NoTail(src, idx, len, out, i) == out

\* ndts.c:151-156, gather_f64's 4-way unrolled loop from row i on
RECURSIVE GatherF64Unrolled(_, _, _, _, _)
GatherF64Unrolled(src, idx, len, out, i) ==
    IF i + 4 <= len
    THEN GatherF64Unrolled(src, idx, len,
             [out EXCEPT ![i]     = src[idx[i]],
                         ![i + 1] = src[idx[i + 1]],
                         ![i + 2] = src[idx[i + 2]],
                         ![i + 3] = src[idx[i + 3]]], i + 4)
    ELSE [out |-> out, i |-> i]

\* ndts.c:157-159, gather_f64's tail loop from row i on
RECURSIVE GatherF64Tail(_, _, _, _, _)
GatherF64Tail(src, idx, len, out, i) ==
    IF i < len
    THEN GatherF64Tail(src, idx, len, [out EXCEPT ![i] = src[idx[i]]], i + 1)
    ELSE out

\* gather_f64
gather_f64(src, idx, len, out) ==
    LET u == GatherF64Unrolled(src, idx, len, out, 0)
    IN  GatherF64Tail(src, idx, len, u.out, u.i)

\* ndts.c:172-177, gather_i32's 4-way unrolled loop from row i on
RECURSIVE GatherI32Unrolled(_, _, _, _, _)
GatherI32Unrolled(src, idx, len, out, i) ==
    IF i + 4 <= len
    THEN GatherI32Unrolled(src, idx, len,
             [out EXCEPT ![i]     = src[idx[i]],
                         ![i + 1] = src[idx[i + 1]],
                         ![i + 2] = src[idx[i + 2]],
                         ![i + 3] = src[idx[i + 3]]], i + 4)
    ELSE [out |-> out, i |-> i]

\* ndts.c:178-180, gather_i32's tail loop from row i on
RECURSIVE GatherI32Tail(_, _, _, _, _)
GatherI32Tail(src, idx, len, out, i) ==
    IF i < len
    THEN GatherI32Tail(src, idx, len, [out EXCEPT ![i] = src[idx[i]]], i + 1)
    ELSE out

\* gather_i32
gather_i32(src, idx, len, out) ==
    LET u == GatherI32Unrolled(src, idx, len, out, 0)
    IN  GatherI32Tail(src, idx, len, u.out, u.i)

\* ndts.c:199-205, gather_batch4's loop from row i on; o holds the four outputs
RECURSIVE GatherBatch4Loop(_, _, _, _, _, _, _, _)
GatherBatch4Loop(ts, sym, price, vol, idx, len, o, i) ==
    IF i < len
    THEN LET ix == idx[i]
         IN  GatherBatch4Loop(ts, sym, price, vol, idx, len,
                 [ts    |-> [o.ts EXCEPT ![i] = ts[ix]],
                  sym   |-> [o.sym EXCEPT ![i] = sym[ix]],
                  price |-> [o.price EXCEPT ![i] = price[ix]],
                  vol   |-> [o.vol EXCEPT ![i] = vol[ix]]], i + 1)
    ELSE o

\* gather_batch4
gather_batch4(ts, sym, price, vol, idx, len, o) ==
    GatherBatch4Loop(ts, sym, price, vol, idx, len, o, 0)

\* The source columns the caller passes: seed 0 holds a different value in
\* every row, seed 1 repeats values, seed 2 is constant.  Doubles are in half
\* units (ts, price), int32 columns are plain integers (sym, vol).
SrcSeeds == {0, 1, 2}

SrcColumn(seed, base, step, len) ==
    [i \in 0..(len - 1) |->
        CASE seed = 0 -> base + step * i
          [] seed = 1 -> base + step * (i % 2)
          [] OTHER    -> base]

GatherInit ==
    /\ SortIdle /\ BoundIdle /\ CodecIdle /\ UringIdle
    /\ g_n \in 0..GatherMaxN
    /\ indices \in [0..(g_n - 1) -> 0..(g_n - 1)]
    /\ \E seed \in SrcSeeds :
          /\ ts_src = SrcColumn(seed, 20, 1, g_n)
          /\ sym_src = SrcColumn(seed, 100, 1, g_n)
          /\ price_src = SrcColumn(seed, 99, -3, g_n)
          /\ vol_src = SrcColumn(seed, 7, 5, g_n)
    /\ one_ts = [i \in 0..(g_n - 1) |-> Unwritten]
    /\ one_sym = [i \in 0..(g_n - 1) |-> Unwritten]
    /\ one_price = [i \in 0..(g_n - 1) |-> Unwritten]
    /\ one_vol = [i \in 0..(g_n - 1) |-> Unwritten]
    /\ ts_out = [i \in 0..(g_n - 1) |-> Unwritten]
    /\ sym_out = [i \in 0..(g_n - 1) |-> Unwritten]
    /\ price_out = [i \in 0..(g_n - 1) |-> Unwritten]
    /\ vol_out = [i \in 0..(g_n - 1) |-> Unwritten]
    /\ gather_pc = "ts"

\* one call of gather_f64, on the ts column and then on the price column
GatherF64 ==
    \/ /\ gather_pc = "ts"
       /\ one_ts' = gather_f64(ts_src, indices, g_n, one_ts)
       /\ gather_pc' = "sym"
       /\ UNCHANGED <<gatherSrc, one_sym, one_price, one_vol,
                      ts_out, sym_out, price_out, vol_out, notGather>>
    \/ /\ gather_pc = "price"
       /\ one_price' = gather_f64(price_src, indices, g_n, one_price)
       /\ gather_pc' = "vol"
       /\ UNCHANGED <<gatherSrc, one_ts, one_sym, one_vol,
                      ts_out, sym_out, price_out, vol_out, notGather>>

\* one call of gather_i32, on the sym column and then on the vol column
GatherI32 ==
    \/ /\ gather_pc = "sym"
       /\ one_sym' = gather_i32(sym_src, indices, g_n, one_sym)
       /\ gather_pc' = "price"
       /\ UNCHANGED <<gatherSrc, one_ts, one_price, one_vol,
                      ts_out, sym_out, price_out, vol_out, notGather>>
    \/ /\ gather_pc = "vol"
       /\ one_vol' = gather_i32(vol_src, indices, g_n, one_vol)
       /\ gather_pc' = "batch"
       /\ UNCHANGED <<gatherSrc, one_ts, one_sym, one_price,
                      ts_out, sym_out, price_out, vol_out, notGather>>

\* one call of gather_batch4 on the same four columns and index array
GatherBatch4 ==
    /\ gather_pc = "batch"
    /\ LET o == gather_batch4(ts_src, sym_src, price_src, vol_src, indices, g_n,
                    [ts |-> ts_out, sym |-> sym_out,
                     price |-> price_out, vol |-> vol_out])
       IN  /\ ts_out' = o.ts
           /\ sym_out' = o.sym
           /\ price_out' = o.price
           /\ vol_out' = o.vol
    /\ gather_pc' = "done"
    /\ UNCHANGED <<gatherSrc, one_ts, one_sym, one_price, one_vol, notGather>>

GatherNext == GatherF64 \/ GatherI32 \/ GatherBatch4

SpecGather == GatherInit /\ [][GatherNext]_vars

\* ----------------------------------------------------- claims on the gather

\* out is src read through the index array, row for row
Gathered(out, src) == \A i \in 0..(g_n - 1) : out[i] = src[indices[i]]

\* C5: gather_f64 and gather_i32 write out[i] = src[P[i]] for every row,
\* the tail rows after the unrolled loop included, and gather_batch4 writes
\* the four columns that the four single-column gathers write.
C5_GatherCorrect ==
    /\ gather_pc \in {"sym", "price", "vol", "batch", "done"}
          => Gathered(one_ts, ts_src)
    /\ gather_pc \in {"price", "vol", "batch", "done"}
          => Gathered(one_sym, sym_src)
    /\ gather_pc \in {"vol", "batch", "done"}
          => Gathered(one_price, price_src)
    /\ gather_pc \in {"batch", "done"}
          => Gathered(one_vol, vol_src)
    /\ gather_pc = "done"
          => /\ ts_out = one_ts /\ sym_out = one_sym
             /\ price_out = one_price /\ vol_out = one_vol

\* a fused and four single gathers are done on 5 rows or more (a block of 4
\* and a tail), through an index array that repeats a row and moves one
C5_Witness ==
    /\ gather_pc = "done" /\ g_n >= 5
    /\ \E i, j \in 0..(g_n - 1) : i # j /\ indices[i] = indices[j]
    /\ indices[g_n - 1] # g_n - 1
    /\ ts_src[0] # ts_src[1]
    /\ ts_out[g_n - 1] = ts_src[indices[g_n - 1]]

\* ------------------------------------------------------ snapshot boundaries

\* Mutant of BoundaryLoop: prev is not advanced to the value that differed.
RECURSIVE BoundaryLoopStalePrev(_, _, _, _, _, _)
BoundaryLoopStalePrev(ts, len, starts, cnt, prev, i) ==
    IF i >= len THEN [starts |-> starts, count |-> cnt]
    ELSE IF ts[i] # prev
         THEN BoundaryLoopStalePrev(ts, len, [starts EXCEPT ![cnt] = i],
                                    cnt + 1, prev, i + 1)
         ELSE BoundaryLoopStalePrev(ts, len, starts, cnt, prev, i + 1)

\* ndts.c:229-234, the scan from row i on
RECURSIVE BoundaryLoop(_, _, _, _, _, _)
BoundaryLoop(ts, len, starts, cnt, prev, i) ==
    IF i >= len THEN [starts |-> starts, count |-> cnt]
    ELSE IF ts[i] # prev
         THEN BoundaryLoop(ts, len, [starts EXCEPT ![cnt] = i],
                           cnt + 1, ts[i], i + 1)
         ELSE BoundaryLoop(ts, len, starts, cnt, prev, i + 1)

\* find_snapshot_boundaries: out_starts as it leaves it, and the return value
find_snapshot_boundaries(ts, len, starts) ==
    IF len = 0 THEN [starts |-> starts, count |-> 0]
    ELSE LET r == BoundaryLoop(ts, len, [starts EXCEPT ![0] = 0], 1, ts[0], 1)
         IN  [starts |-> [r.starts EXCEPT ![r.count] = len], count |-> r.count]

\* The caller passes any column; out_starts has room for n starts and the
\* sentinel.
BoundInit ==
    /\ SortIdle /\ GatherIdle /\ CodecIdle /\ UringIdle
    /\ b_n \in 0..BoundMaxN
    /\ sorted_ts \in [0..(b_n - 1) -> Timestamps]
    /\ out_starts = [j \in 0..b_n |-> Unwritten]
    /\ b_count = 0
    /\ bound_pc = "start"

FindSnapshotBoundaries ==
    /\ bound_pc = "start"
    /\ LET r == find_snapshot_boundaries(sorted_ts, b_n, out_starts)
       IN  /\ out_starts' = r.starts
           /\ b_count' = r.count
    /\ bound_pc' = "done"
    /\ UNCHANGED <<sorted_ts, b_n, notBound>>

BoundNext == FindSnapshotBoundaries

SpecBoundaries == BoundInit /\ [][BoundNext]_vars

\* ------------------------------------------- claims on snapshot boundaries

\* the precondition: the column is sorted ascending
InputAscending == \A i \in 0..(b_n - 2) : sorted_ts[i] <= sorted_ts[i + 1]

DistinctValues == {sorted_ts[i] : i \in 0..(b_n - 1)}

\* C6: on an ascending column of n >= 1 rows the return value k is the number
\* of distinct values, starts[0] = 0, starts[k] = n, starts is strictly
\* increasing, the rows of one interval [starts[j], starts[j+1]) are equal
\* and the values of adjacent intervals differ.
C6_BoundariesPartition ==
    (bound_pc = "done" /\ b_n >= 1 /\ InputAscending) =>
        /\ b_count = Cardinality(DistinctValues)
        /\ out_starts[0] = 0
        /\ out_starts[b_count] = b_n
        /\ \A j \in 0..(b_count - 1) : out_starts[j] < out_starts[j + 1]
        /\ \A j \in 0..(b_count - 1) :
              \A i \in out_starts[j]..(out_starts[j + 1] - 1) :
                  sorted_ts[i] = sorted_ts[out_starts[j]]
        /\ \A j \in 0..(b_count - 2) :
              sorted_ts[out_starts[j]] # sorted_ts[out_starts[j + 1]]

\* an ascending column with a run of equal rows between two other snapshots
C6_Witness ==
    /\ bound_pc = "done" /\ InputAscending /\ b_n >= 4 /\ b_count = 3
    /\ out_starts[2] - out_starts[1] = 2

\* -------------------------------------------------------- 64-bit words

\* 1 << k for the k used on bytes and on the 6-bit fields, 0 <= k <= 7
Pow2Table == <<1, 2, 4, 8, 16, 32, 64, 128>>
Pow2(k) == Pow2Table[k + 1]

Zero64 == [i \in 1..64 |-> 0]

\* a small non-negative int widened to uint64_t
U64(k) == [i \in 1..64 |-> IF i < 57 THEN 0 ELSE (k \div Pow2(64 - i)) % 2]

\* (int) of a word whose set bits all lie in its low 6 bits
ToInt(w) ==
    w[59] * 32 + w[60] * 16 + w[61] * 8 + w[62] * 4 + w[63] * 2 + w[64]

\* a ^ b
Xor64(a, b) == [i \in 1..64 |-> (a[i] + b[i]) % 2]

\* x >> s for 0 <= s <= 63
Shr64(x, s) == SubSeq(Zero64, 1, s) \o SubSeq(x, 1, 64 - s)

\* x << s for 0 <= s <= 63
Shl64(x, s) == SubSeq(x, s + 1, 64) \o SubSeq(Zero64, 1, s)

\* C defines x << s on a uint64_t for 0 <= s <= 63 only
ShiftDefined(s) == s >= 0 /\ s <= 63

\* What a build yields for x << s with s negative or 64 and more, which C
\* leaves undefined: the shift by the low six bits of the count (the shift
\* instructions of x86-64 and AArch64), or every bit shifted out (a helper
\* routine on a 32-bit target).
ShiftBuilds == {"low6", "zero"}

\* x << s as the decoder computes it in the build ub
ShlAnyCount(x, s, ub) ==
    IF ShiftDefined(s) THEN Shl64(x, s)
    ELSE IF ub = "low6" THEN Shl64(x, s % 64)
    ELSE Zero64

\* clz64
clz64(x) ==
    IF x = Zero64 THEN 64
    ELSE (CHOOSE i \in 1..64 : x[i] = 1 /\ \A j \in 1..(i - 1) : x[j] = 0) - 1

\* ctz64
ctz64(x) ==
    IF x = Zero64 THEN 64
    ELSE 64 - (CHOOSE i \in 1..64 : x[i] = 1 /\ \A j \in (i + 1)..64 : x[j] = 0)

\* double_to_bits / bits_to_double: the union reinterprets the same 64 bits,
\* and a double is held here as those bits
double_to_bits(v) == v
bits_to_double(bits) == bits

\* a word from its sixteen hexadecimal digits
Hex(digits) ==
    [i \in 1..64 |-> (digits[((i - 1) \div 4) + 1] \div Pow2(3 - ((i - 1) % 4))) % 2]

\* ------------------------------------------------- gorilla_compress_f64

\* A byte buffer is the sequence of its bits, eight to a byte, each byte
\* from its high bit down: bit k of byte j (k = 0 the high bit) is element
\* 8j + k + 1.
ZeroByte == <<0, 0, 0, 0, 0, 0, 0, 0>>

\* (buffer[byte_pos] >> (7 - bit_pos)) & 1
BitAt(buf, byte_pos, bit_pos) == buf[8 * byte_pos + bit_pos + 1]

\* WRITE_BIT(b) on the writer w = [buf, byte_pos, bit_pos]
WRITE_BIT(w, b) ==
    LET cleared == IF w.bit_pos = 0
                   THEN SubSeq(w.buf, 1, 8 * w.byte_pos) \o ZeroByte
                   ELSE w.buf
        written == IF b = 1
                   THEN [cleared EXCEPT ![8 * w.byte_pos + w.bit_pos + 1] = 1]
                   ELSE cleared
    IN  IF w.bit_pos + 1 = 8
        THEN [buf |-> written, byte_pos |-> w.byte_pos + 1, bit_pos |-> 0]
        ELSE [buf |-> written, byte_pos |-> w.byte_pos, bit_pos |-> w.bit_pos + 1]

\* WRITE_BITS(val, bits): WRITE_BIT of bits _i = bits-1 .. 0 of the word val,
\* as the writer they leave: the low `bits` bits of val follow the bits
\* written so far, and the last byte touched is 0 after them, since every
\* byte is cleared when its first bit is written.
WRITE_BITS(w, val, bits) ==
    IF bits <= 0 THEN w
    ELSE
      LET p0 == 8 * w.byte_pos + w.bit_pos
          p1 == p0 + bits
      IN  [buf |-> SubSeq(w.buf, 1, p0) \o SubSeq(val, 65 - bits, 64)
                       \o SubSeq(ZeroByte, 1, (8 - (p1 % 8)) % 8),
           byte_pos |-> p1 \div 8,
           bit_pos |-> p1 % 8]

\* ndts.c:444-477, one iteration of the loop: e holds the writer and
\* prev_value, prev_leading, prev_trailing
CompressValue(e, value) ==
    LET curr == double_to_bits(value)
        xor_val == Xor64(curr, e.prev_value)
    IN  IF xor_val = Zero64
        THEN [e EXCEPT !.w = WRITE_BIT(e.w, 0), !.prev_value = curr]
        ELSE
          LET w1 == WRITE_BIT(e.w, 1)
              leading == clz64(xor_val)
              trailing == ctz64(xor_val)
          IN  IF /\ e.prev_leading # -1
                 /\ leading >= e.prev_leading
                 /\ trailing >= e.prev_trailing
              THEN LET meaningful == 64 - e.prev_leading - e.prev_trailing
                       w2 == WRITE_BIT(w1, 0)
                   IN  [e EXCEPT
                          !.w = WRITE_BITS(w2, Shr64(xor_val, e.prev_trailing),
                                           meaningful),
                          !.prev_value = curr]
              ELSE LET meaningful == 64 - leading - trailing
                       w2 == WRITE_BIT(w1, 1)
                       w3 == WRITE_BITS(w2, U64(leading), 6)
                       w4 == WRITE_BITS(w3, U64(meaningful), 6)
                   IN  [w |-> WRITE_BITS(w4, Shr64(xor_val, trailing), meaningful),
                        prev_value |-> curr,
                        prev_leading |-> leading,
                        prev_trailing |-> trailing]

\* ndts.c:443, the loop over data[i..len-1]
RECURSIVE CompressLoop(_, _, _, _)
CompressLoop(d, len, i, e) ==
    IF i >= len THEN e
    ELSE CompressLoop(d, len, i + 1, CompressValue(e, d[i]))

\* gorilla_compress_f64: the bytes written to out_buffer and the return value
gorilla_compress_f64(d, len) ==
    IF len = 0 THEN [buf |-> << >>, ret |-> 0]
    ELSE LET first == double_to_bits(d[0])
             w0 == WRITE_BITS([buf |-> << >>, byte_pos |-> 0, bit_pos |-> 0],
                              first, 64)
             e == CompressLoop(d, len, 1,
                      [w |-> w0, prev_value |-> first,
                       prev_leading |-> -1, prev_trailing |-> 0])
         IN  [buf |-> e.w.buf,
              ret |-> IF e.w.bit_pos > 0 THEN e.w.byte_pos + 1 ELSE e.w.byte_pos]

\* ----------------------------------------------- gorilla_decompress_f64

\* the low 64 of the bits read, zero-extended: _v after the loop
WordOf(raw) ==
    IF Len(raw) <= 64 THEN SubSeq(Zero64, 1, 64 - Len(raw)) \o raw
    ELSE SubSeq(raw, Len(raw) - 63, Len(raw))

\* Mutant of READ_BITS: byte_pos is not checked against buffer_len, and the
\* bits past the end read as 0.
ReadBitsUnchecked(buf, len, rd, bits) ==
    LET p0 == 8 * rd.byte_pos + rd.bit_pos
        p1 == IF bits > 0 THEN p0 + bits ELSE p0
    IN  [eof |-> FALSE,
         v |-> WordOf([t \in 1..(p1 - p0) |->
                          IF p0 + t <= 8 * len THEN buf[p0 + t] ELSE 0]),
         rd |-> [byte_pos |-> p1 \div 8, bit_pos |-> p1 % 8]]

\* READ_BIT() at the reader position rd = [byte_pos, bit_pos]: eof is the
\* macro's `return count`
READ_BIT(buf, len, rd) ==
    IF rd.byte_pos >= len THEN [eof |-> TRUE, bit |-> 0, rd |-> rd]
    ELSE [eof |-> FALSE,
          bit |-> BitAt(buf, rd.byte_pos, rd.bit_pos),
          rd |-> IF rd.bit_pos + 1 = 8
                 THEN [byte_pos |-> rd.byte_pos + 1, bit_pos |-> 0]
                 ELSE [byte_pos |-> rd.byte_pos, bit_pos |-> rd.bit_pos + 1]]

\* READ_BITS(bits): _v = (_v << 1) | READ_BIT(), bits times, as the value
\* and reader they leave.  The reads take the next `bits` bits of the
\* stream; a read whose byte is at or past buffer_len returns from the
\* function, so the whole read does when its last bit's byte is.  A 65th bit
\* shifts the first one out of _v.
READ_BITS(buf, len, rd, bits) ==
    LET p0 == 8 * rd.byte_pos + rd.bit_pos
        p1 == IF bits > 0 THEN p0 + bits ELSE p0
    IN  IF bits > 0 /\ (p1 - 1) \div 8 >= len
        THEN [eof |-> TRUE, v |-> Zero64, rd |-> rd]
        ELSE [eof |-> FALSE,
              v |-> WordOf(SubSeq(buf, p0 + 1, p1)),
              rd |-> [byte_pos |-> p1 \div 8, bit_pos |-> p1 % 8]]

\* out_data[count++] = bits_to_double(value)
Emit(d, value) ==
    [d EXCEPT !.out = (d.count :> bits_to_double(value)) @@ d.out,
              !.count = d.count + 1,
              !.prev_value = value]

\* prev_value ^ (x << trailing), then the store; ub_hit records a shift count
\* that C leaves undefined
EmitXor(d, x, trailing, ub) ==
    Emit([d EXCEPT !.ub_hit = @ \/ ~ShiftDefined(trailing)],
         Xor64(d.prev_value, ShlAnyCount(x, trailing, ub)))

Return(d) == [d EXCEPT !.returned = TRUE]

\* ndts.c:536-560, one iteration of the while loop on the decoder state d
DecompressValue(buf, len, ub, d) ==
    LET same == READ_BIT(buf, len, d.rd)
    IN  IF same.eof THEN Return(d)
        ELSE IF same.bit = 0 THEN Emit([d EXCEPT !.rd = same.rd], d.prev_value)
        ELSE
          LET use_prev == READ_BIT(buf, len, same.rd)
          IN  IF use_prev.eof THEN Return(d)
              ELSE IF use_prev.bit = 0
              THEN LET meaningful == 64 - d.prev_leading - d.prev_trailing
                       x == READ_BITS(buf, len, use_prev.rd, meaningful)
                   IN  IF x.eof THEN Return(d)
                       ELSE EmitXor([d EXCEPT !.rd = x.rd],
                                    x.v, d.prev_trailing, ub)
              ELSE LET l == READ_BITS(buf, len, use_prev.rd, 6)
                   IN  IF l.eof THEN Return(d)
                       ELSE
                   LET m == READ_BITS(buf, len, l.rd, 6)
                   IN  IF m.eof THEN Return(d)
                       ELSE
                   LET leading == ToInt(l.v)
                       meaningful == ToInt(m.v)
                       trailing == 64 - leading - meaningful
                       x == READ_BITS(buf, len, m.rd, meaningful)
                   IN  IF x.eof
                       THEN Return([d EXCEPT !.prev_leading = leading,
                                             !.prev_trailing = trailing])
                       ELSE EmitXor([d EXCEPT !.rd = x.rd,
                                              !.prev_leading = leading,
                                              !.prev_trailing = trailing],
                                    x.v, trailing, ub)

\* ndts.c:535, while (count < max_count && byte_pos < buffer_len)
RECURSIVE DecompressLoop(_, _, _, _, _)
DecompressLoop(buf, len, mc, ub, d) ==
    IF d.returned \/ ~(d.count < mc /\ d.rd.byte_pos < len) THEN d
    ELSE DecompressLoop(buf, len, mc, ub, DecompressValue(buf, len, ub, d))

\* gorilla_decompress_f64: the values written to out_data and the return value
gorilla_decompress_f64(buf, len, mc, ub) ==
    IF len < 8 THEN [out |-> << >>, count |-> 0, ub_hit |-> FALSE]
    ELSE LET first == READ_BITS(buf, len, [byte_pos |-> 0, bit_pos |-> 0], 64)
             d == DecompressLoop(buf, len, mc, ub,
                      [rd |-> first.rd, count |-> 1,
                       out |-> (0 :> bits_to_double(first.v)),
                       prev_value |-> first.v,
                       prev_leading |-> -1, prev_trailing |-> 0,
                       returned |-> FALSE, ub_hit |-> FALSE])
         IN  [out |-> d.out, count |-> d.count, ub_hit |-> d.ub_hit]

\* ------------------------------------------------------- the codec's calls

\* The doubles the caller compresses, by bit pattern.
PosZero == Hex(<<0,0,0,0, 0,0,0,0, 0,0,0,0, 0,0,0,0>>)
NegZero == Hex(<<8,0,0,0, 0,0,0,0, 0,0,0,0, 0,0,0,0>>)
One     == Hex(<<3,15,15,0, 0,0,0,0, 0,0,0,0, 0,0,0,0>>)
QuietNaN == Hex(<<7,15,15,8, 0,0,0,0, 0,0,0,0, 0,0,0,0>>)
PosInf  == Hex(<<7,15,15,0, 0,0,0,0, 0,0,0,0, 0,0,0,0>>)
\* -1e-323: against +0.0 the XOR has bit 63 and bit 1 set
NegTiny == Hex(<<8,0,0,0, 0,0,0,0, 0,0,0,0, 0,0,0,2>>)
\* -2.0000000000000013: against +0.0 the XOR has bit 63 and bit 0 set,
\* against NegTiny it has bit 62 and bit 0 set
NegTwoUlp == Hex(<<12,0,0,0, 0,0,0,0, 0,0,0,0, 0,0,0,3>>)

Doubles == {PosZero, NegZero, One, QuietNaN, PosInf, NegTiny, NegTwoUlp}

CodecInit ==
    /\ SortIdle /\ GatherIdle /\ BoundIdle /\ UringIdle
    /\ c_n \in 0..CodecMaxN
    /\ c_data \in [0..(c_n - 1) -> Doubles]
    /\ shl_ub = "unused"
    /\ out_buffer = << >> /\ comp_len = 0
    /\ max_count = 0 /\ full_out = << >> /\ full_count = 0
    /\ buffer_len = 0 /\ out_data = << >> /\ d_count = 0
    /\ codec_pc = "start"

\* gorilla_compress_f64(data, n, out_buffer)
GorillaCompress ==
    /\ codec_pc = "start"
    /\ LET r == gorilla_compress_f64(c_data, c_n)
       IN  /\ out_buffer' = r.buf
           /\ comp_len' = r.ret
    /\ codec_pc' = "compressed"
    /\ UNCHANGED <<c_data, c_n, max_count, full_out, full_count,
                   buffer_len, out_data, d_count, shl_ub, notCodec>>

\* The outcomes of one call of gorilla_decompress_f64 in a build that has,
\* or has not yet, shown what it does with an undefined shift: a call that
\* executes no such shift has one outcome whatever the build; the first call
\* that does has one outcome for every build, and fixes it.
DecompressOutcomes(buf, len, mc, build) ==
    LET probe == gorilla_decompress_f64(buf, len, mc,
                     IF build = "unused" THEN "low6" ELSE build)
    IN  IF build # "unused" THEN {[r |-> probe, build |-> build]}
        ELSE IF ~probe.ub_hit THEN {[r |-> probe, build |-> "unused"]}
        ELSE {[r |-> gorilla_decompress_f64(buf, len, mc, ub), build |-> ub] :
                 ub \in ShiftBuilds}

\* gorilla_decompress_f64(out_buffer, comp_len, out, max_count): the whole
\* stream, with a max_count the caller chooses
GorillaDecompress ==
    /\ codec_pc = "compressed"
    /\ \E mc \in 0..(CodecMaxN + 1) :
          \E o \in DecompressOutcomes(out_buffer, comp_len, mc, shl_ub) :
              /\ max_count' = mc
              /\ full_out' = o.r.out
              /\ full_count' = o.r.count
              /\ shl_ub' = o.build
    /\ codec_pc' = "decoded"
    /\ UNCHANGED <<c_data, c_n, out_buffer, comp_len,
                   buffer_len, out_data, d_count, notCodec>>

\* gorilla_decompress_f64(out_buffer, L, out, max_count): the first L bytes
\* of the stream, with the same max_count, in the same build
GorillaDecompressPrefix ==
    /\ codec_pc = "decoded"
    /\ \E L \in 0..comp_len :
          \E o \in DecompressOutcomes(out_buffer, L, max_count, shl_ub) :
              /\ buffer_len' = L
              /\ out_data' = o.r.out
              /\ d_count' = o.r.count
              /\ shl_ub' = o.build
    /\ codec_pc' = "prefix_decoded"
    /\ UNCHANGED <<c_data, c_n, out_buffer, comp_len,
                   max_count, full_out, full_count, notCodec>>

CodecNext == GorillaCompress \/ GorillaDecompress \/ GorillaDecompressPrefix

SpecCodec == CodecInit /\ [][CodecNext]_vars

\* ------------------------------------------------------ claims on the codec

\* the output buffer size the documentation of gorilla_compress_f64 asks
\* for, in bytes per value
BytesPerValue == 9

FullDecoded == codec_pc \in {"decoded", "prefix_decoded"}
PrefixDecoded == codec_pc = "prefix_decoded"

\* the first cnt values of out are the first cnt values of src, bit for bit
SamePrefix(out, cnt, src) == \A i \in 0..(cnt - 1) : out[i] = src[i]

\* C1: decoding the whole stream of a sequence of n >= 1 doubles with
\* max_count = n returns n and writes the sequence back bit for bit.
C1_RoundTrip ==
    (FullDecoded /\ c_n >= 1 /\ max_count = c_n) =>
        (full_count = c_n /\ SamePrefix(full_out, c_n, c_data))

\* C7: decoding the first L bytes of a stream returns a count no larger than
\* decoding all of it with the same max_count does, and writes the same
\* values up to that count.
C7_PrefixOfFullDecode ==
    PrefixDecoded =>
        (d_count <= full_count /\ SamePrefix(out_data, d_count, full_out))

\* the truncation ends the decode in the middle of the third value
C7_Witness ==
    /\ PrefixDecoded /\ c_n >= 3 /\ max_count >= 3
    /\ buffer_len < comp_len /\ buffer_len > 8
    /\ d_count = 2 /\ full_count >= 3
    /\ full_out[2] # full_out[1]

\* C8: for every max_count, decoding the whole stream or any byte prefix of
\* it returns a count no larger than n and writes only the first values of
\* the sequence that was compressed.
C8_NoFabricatedValues ==
    /\ FullDecoded =>
          (full_count <= c_n /\ SamePrefix(full_out, full_count, c_data))
    /\ PrefixDecoded =>
          (d_count <= c_n /\ SamePrefix(out_data, d_count, c_data))

\* C9: the byte length gorilla_compress_f64 returns, which is also the number
\* of bytes of out_buffer it has written, is at most 9 * n.
C9_EncoderBound ==
    codec_pc # "start" =>
        (comp_len <= BytesPerValue * c_n /\ Len(out_buffer) <= 8 * BytesPerValue * c_n)

\* C10: gorilla_decompress_f64 writes at most max_count elements to out_data
\* and returns a count that is at most max_count.
C10_DecoderBound ==
    /\ FullDecoded =>
          (full_count <= max_count /\ Cardinality(DOMAIN full_out) <= max_count)
    /\ PrefixDecoded =>
          (d_count <= max_count /\ Cardinality(DOMAIN out_data) <= max_count)

\* ------------------------------------------------------ io_uring reader

\* #define URING_ENTRIES 256
URING_ENTRIES == 256

\* most uring_batch_read calls made on one context
MaxBatches == 2
\* largest excess of a request count over URING_ENTRIES
MaxOver == 2

\* a uint32_t is kept as its two 16-bit halves, so that the ring indices
\* wrap at 2^32 as they do in C
Half == 2^16

U32(hi, lo) == [hi |-> hi, lo |-> lo]

U32Zero == U32(0, 0)

\* x + k in uint32_t arithmetic, for 0 <= k < 2^16
U32Add(x, k) ==
    LET s == x.lo + k
    IN  U32((x.hi + (s \div Half)) % Half, s % Half)

\* a - b in uint32_t arithmetic
U32Sub(a, b) ==
    LET lo == a.lo - b.lo
        borrow == IF lo < 0 THEN 1 ELSE 0
    IN  U32((a.hi - b.hi - borrow) % Half, lo % Half)

\* the number of entries between two ring indices; the rings hold far fewer
\* than 2^31 entries
Distance(a, b) == LET d == U32Sub(a, b) IN d.hi * Half + d.lo

\* x & mask for a ring mask, which is a power of two minus one below 2^16
Masked(x, mask) == x.lo % (mask + 1)

\* the caller's request arrays: every request of a batch reads one block of
\* the same file, fds[i] = file, offsets[i] = buffer_offsets[i] = i blocks,
\* sizes[i] = one block; the k-th batch on a context reads file FileOf(k)
FirstFile == 10

FileOf(k) == FirstFile + k

BlockLen == 8

\* the submission entry the loop body builds for request i
SqeOf(file, i) ==
    [opcode |-> "IORING_OP_READ", fd |-> file, off |-> i * BlockLen,
     addr |-> i * BlockLen, len |-> BlockLen, user_data |-> i]

\* freshly mapped ring memory is zero
ZeroSqe ==
    [opcode |-> "IORING_OP_NOP", fd |-> 0, off |-> 0, addr |-> 0, len |-> 0,
     user_data |-> 0]

ZeroCqe == [user_data |-> 0, res |-> 0]

\* the rings as io_uring_setup(entries) lays them out: entries submission
\* slots, twice as many completion slots, all indices zero
KernelRing(entries) ==
    [sq_head |-> U32Zero, sq_tail |-> U32Zero, sq_mask |-> entries - 1,
     sq_array |-> [s \in 0..(entries - 1) |-> 0],
     sqes |-> [s \in 0..(entries - 1) |-> ZeroSqe],
     cq_head |-> U32Zero, cq_tail |-> U32Zero, cq_mask |-> 2 * entries - 1,
     cqes |-> [c \in 0..(2 * entries - 1) |-> ZeroCqe]]

\* the count is left as the caller gave it
CapCountUncapped(cnt) == cnt

\* if (count > URING_ENTRIES) count = URING_ENTRIES;
CapCount(cnt) == IF cnt > URING_ENTRIES THEN URING_ENTRIES ELSE cnt

\* the submission loop and the release store of the tail.  Iteration i
\* writes slot (tail + i) & sq_mask; slot s is written by the iterations
\* first(s), first(s) + slots, ... below cnt and keeps what the last of them
\* wrote.
SubmitLoop(r, file, cnt) ==
    LET slots == r.sq_mask + 1
        start == Masked(r.sq_tail, r.sq_mask)
        first(s) == (s - start) % slots
        last(i) == i + ((cnt - 1 - i) \div slots) * slots
    IN  [r EXCEPT
            !.sqes = [s \in DOMAIN r.sqes |->
                        LET i == first(s)
                        IN  IF i < cnt THEN SqeOf(file, last(i))
                            ELSE r.sqes[s]],
            !.sq_array = [s \in DOMAIN r.sq_array |->
                            IF first(s) < cnt THEN s ELSE r.sq_array[s]],
            !.sq_tail = U32Add(r.sq_tail, cnt)]

\* what the kernel does with the batch
EnterOutcomes == {"all_read", "odd_reads_fail", "enter_fails"}

\* syscall(__NR_io_uring_enter, ring_fd, count, count, GETEVENTS): the
\* kernel either refuses the call, or takes up to to_submit entries from the
\* submission ring through sq_array, posts one completion for each and
\* returns their number
io_uring_enter(r, to_submit, outcome) ==
    IF outcome = "enter_fails" THEN [ring |-> r, ret |-> -1]
    ELSE
        LET pending == Distance(r.sq_tail, r.sq_head)
            k == IF to_submit < pending THEN to_submit ELSE pending
            cslots == r.cq_mask + 1
            start == Masked(r.cq_tail, r.cq_mask)
            head == Masked(r.sq_head, r.sq_mask)
            sqe(j) == r.sqes[r.sq_array[(head + j) % (r.sq_mask + 1)]]
            res(e) ==
                IF outcome = "odd_reads_fail" /\ e.user_data % 2 = 1
                THEN -1 ELSE e.len
            cqe(e) == [user_data |-> e.user_data, res |-> res(e)]
        IN  [ring |->
                [r EXCEPT
                    !.sq_head = U32Add(r.sq_head, k),
                    !.cq_tail = U32Add(r.cq_tail, k),
                    !.cqes = [c \in DOMAIN r.cqes |->
                                LET j == (c - start) % cslots
                                IN  IF j < k THEN cqe(sqe(j))
                                    ELSE r.cqes[c]]],
             ret |-> k]

\* the completion loop and the release store of the head
CompletionLoop(r) ==
    LET d == Distance(r.cq_tail, r.cq_head)
        head == Masked(r.cq_head, r.cq_mask)
        good == {j \in 0..(d - 1) :
                    r.cqes[(head + j) % (r.cq_mask + 1)].res >= 0}
    IN  [ring |-> [r EXCEPT !.cq_head = U32Add(r.cq_head, d)],
         ret |-> Cardinality(good)]

uring_batch_read(r, file, cnt, outcome) ==
    IF cnt = 0 THEN [ring |-> r, ret |-> 0]
    ELSE
        LET capped == CapCount(cnt)
            entered == io_uring_enter(SubmitLoop(r, file, capped), capped,
                                      outcome)
        IN  IF entered.ret < 0 THEN entered
            ELSE CompletionLoop(entered.ring)

\* pointer fields of struct uring_ctx hold NULL, MAP_FAILED or the mapping
\* they point to; memset(ctx, 0, sizeof(*ctx))
ZeroCtx ==
    [ring_fd |-> 0, sq_ring |-> "NULL", cq_ring |-> "NULL", sqes |-> "NULL",
     sq_ring_size |-> 0, cq_ring_size |-> 0]

Mappings == {"sq_ring", "sqes", "cq_ring"}

\* what the kernel holds for the process: the ring descriptor (-1 before
\* io_uring_setup), whether it is open, the close() calls that released it,
\* the close() calls made on its number when it was no longer open, and for
\* each mapping the mmap() calls that created it, its mapped length (in ring
\* entries) and the munmap() calls that released it
NoResources ==
    [fd |-> -1, fd_open |-> FALSE, closes |-> 0, stale_closes |-> 0,
     mmaps |-> [m \in Mappings |-> 0], mapped |-> [m \in Mappings |-> 0],
     unmaps |-> [m \in Mappings |-> 0]]

\* descriptor numbers io_uring_setup may return
Descriptors == {0, 3}

close(o, fd) ==
    IF o.fd_open /\ fd = o.fd
    THEN [o EXCEPT !.fd_open = FALSE, !.closes = o.closes + 1]
    ELSE [o EXCEPT !.stale_closes = o.stale_closes + 1]

mmap(o, m, len) ==
    [o EXCEPT !.mapped[m] = len, !.mmaps[m] = o.mmaps[m] + 1]

\* munmap releases the pages of the range it is given
munmap(o, m, len) ==
    IF o.mapped[m] > 0 /\ len >= o.mapped[m]
    THEN [o EXCEPT !.mapped[m] = 0, !.unmaps[m] = o.unmaps[m] + 1]
    ELSE IF o.mapped[m] > len
         THEN [o EXCEPT !.mapped[m] = o.mapped[m] - len]
         ELSE o

\* uring_init with io_uring_setup returning fd (negative on failure) and the
\* mmap call number failing (0: none) returning MAP_FAILED.  The kernel
\* reports sq_entries = URING_ENTRIES and cq_entries = 2 * URING_ENTRIES.
uring_init(o, fd, failing) ==
    LET c0 == [ZeroCtx EXCEPT !.ring_fd = -1]
        o1 == [o EXCEPT !.fd = fd, !.fd_open = TRUE]
        c1 == [c0 EXCEPT !.ring_fd = fd, !.sq_ring_size = URING_ENTRIES]
        o2 == mmap(o1, "sq_ring", c1.sq_ring_size)
        c2 == [c1 EXCEPT !.sq_ring = "sq_ring"]
        o3 == mmap(o2, "sqes", URING_ENTRIES)
        c3 == [c2 EXCEPT !.sqes = "sqes",
                         !.cq_ring_size = 2 * URING_ENTRIES]
        o4 == mmap(o3, "cq_ring", c3.cq_ring_size)
        c4 == [c3 EXCEPT !.cq_ring = "cq_ring"]
    IN  IF fd < 0 THEN [ctx |-> c0, os |-> o, ret |-> -1]
        ELSE IF failing = 1
        THEN [ctx |-> [c1 EXCEPT !.sq_ring = "MAP_FAILED"],
              os |-> close(o1, fd), ret |-> -2]
        ELSE IF failing = 2
        THEN [ctx |-> [c2 EXCEPT !.sqes = "MAP_FAILED"],
              os |-> close(o2, fd), ret |-> -3]
        ELSE IF failing = 3
        THEN [ctx |-> [c3 EXCEPT !.cq_ring = "MAP_FAILED"],
              os |-> close(o3, fd), ret |-> -4]
        ELSE [ctx |-> c4, os |-> o4, ret |-> 0]

Live(p) == p # "NULL" /\ p # "MAP_FAILED"

uring_destroy(c, o) ==
    LET o1 == IF Live(c.sq_ring)
              THEN munmap(o, c.sq_ring, c.sq_ring_size) ELSE o
        o2 == IF Live(c.cq_ring)
              THEN munmap(o1, c.cq_ring, c.cq_ring_size) ELSE o1
        o3 == IF Live(c.sqes)
              THEN munmap(o2, c.sqes, URING_ENTRIES) ELSE o2
    IN  IF c.ring_fd >= 0 THEN close(o3, c.ring_fd) ELSE o3

\* request counts handed to uring_batch_read
Counts ==
    {0, 1, URING_ENTRIES - 1} \cup
    URING_ENTRIES..(URING_ENTRIES + MaxOver)

\* the caller has allocated uring_ctx_size() bytes
UringNew ==
    /\ SortIdle /\ GatherIdle /\ BoundIdle /\ CodecIdle
    /\ ctx = ZeroCtx
    /\ ring = << >>
    /\ os = NoResources
    /\ req_count = 0
    /\ req_file = 0
    /\ batch_ret = 0
    /\ init_ret = 0
    /\ batches = 0
    /\ uring_pc = "new"

UringInit ==
    /\ uring_pc = "new"
    /\ \E fd \in Descriptors \cup {-1}, failing \in 0..3 :
        LET r == uring_init(os, fd, failing)
        IN  /\ ctx' = r.ctx
            /\ os' = r.os
            /\ init_ret' = r.ret
            /\ ring' = IF r.ret = 0 THEN KernelRing(URING_ENTRIES) ELSE ring
            /\ uring_pc' = IF r.ret = 0 THEN "ready" ELSE "failed"
    /\ UNCHANGED <<req_count, req_file, batch_ret, batches, notUring>>

UringBatchRead ==
    /\ uring_pc = "ready"
    /\ batches < MaxBatches
    /\ \E cnt \in Counts, outcome \in EnterOutcomes :
        LET file == FileOf(batches + 1)
            r == uring_batch_read(ring, file, cnt, outcome)
        IN  /\ ring' = r.ring
            /\ batch_ret' = r.ret
            /\ req_count' = cnt
            /\ req_file' = file
    /\ batches' = batches + 1
    /\ UNCHANGED <<ctx, os, init_ret, uring_pc, notUring>>

\* a context that has served full batches until its ring indices are one
\* batch short of 2^32: the last two of those calls, which together rewrite
\* every slot of both rings
UringLongRun ==
    /\ uring_pc = "ready"
    /\ batches = 0
    /\ ring = KernelRing(URING_ENTRIES)
    /\ LET file == FileOf(0)
           at == U32(Half - 1, Half - 3 * URING_ENTRIES)
           before == [ring EXCEPT !.sq_head = at, !.sq_tail = at,
                                  !.cq_head = at, !.cq_tail = at]
           one == uring_batch_read(before, file, URING_ENTRIES, "all_read")
           two == uring_batch_read(one.ring, file, URING_ENTRIES, "all_read")
       IN  /\ ring' = two.ring
            /\ batch_ret' = two.ret
            /\ req_count' = URING_ENTRIES
            /\ req_file' = file
    /\ UNCHANGED <<ctx, os, init_ret, batches, uring_pc, notUring>>

UringDestroy ==
    /\ uring_pc \in {"ready", "failed"}
    /\ os' = uring_destroy(ctx, os)
    /\ uring_pc' = "destroyed"
    /\ UNCHANGED <<ctx, ring, req_count, req_file, batch_ret, init_ret,
                   batches, notUring>>

UringNext == UringInit \/ UringBatchRead \/ UringLongRun \/ UringDestroy

SpecUring == UringNew /\ [][UringNext]_vars

\* ------------------------------------------- claims on the io_uring reader

\* a step that is a call of uring_batch_read
BatchStep == batches' = batches + 1

\* the ring slots that hold an entry of the last batch (each batch reads a
\* file of its own)
SlotsOfLastBatch == {s \in DOMAIN ring.sqes : ring.sqes[s].fd = req_file}

\* C11: a call of uring_batch_read with count > 256 writes exactly 256
\* submission entries, those of requests 0..255 in request order at ring
\* slots (tail + i) & sq_mask; the published submission tail advances by
\* exactly min(count, 256); no request with index >= 256 is written or
\* taken by the kernel; a call with count = 0 returns 0 and leaves both
\* tails and both heads as they were.
C11_BatchCap ==
    [][BatchStep =>
        LET cnt == req_count'
            sent == IF cnt > URING_ENTRIES THEN URING_ENTRIES ELSE cnt
        IN  /\ U32Sub(ring'.sq_tail, ring.sq_tail) = U32(0, sent)
            /\ cnt > URING_ENTRIES =>
                /\ \A i \in 0..(URING_ENTRIES - 1) :
                      ring'.sqes[Masked(U32Add(ring.sq_tail, i), ring.sq_mask)]
                          = SqeOf(req_file', i)
                /\ Cardinality(SlotsOfLastBatch') = URING_ENTRIES
                /\ \A s \in DOMAIN ring'.sqes :
                      ring'.sqes[s].user_data < URING_ENTRIES
                /\ \A c \in DOMAIN ring'.cqes :
                      ring'.cqes[c].user_data < URING_ENTRIES
                /\ Distance(ring'.sq_head, ring.sq_head) <= URING_ENTRIES
            /\ cnt = 0 =>
                /\ batch_ret' = 0
                /\ ring'.sq_tail = ring.sq_tail /\ ring'.sq_head = ring.sq_head
                /\ ring'.cq_tail = ring.cq_tail /\ ring'.cq_head = ring.cq_head
    ]_vars

\* an oversized batch submitted from tail 2^32 - 1: request 0 is in the last
\* slot, request 1 in slot 0, and the tail has wrapped to 255
C11_Witness ==
    /\ uring_pc = "ready" /\ batches >= 1
    /\ req_count > URING_ENTRIES
    /\ ring.sq_tail = U32(0, URING_ENTRIES - 1)
    /\ ring.sqes[URING_ENTRIES - 1] = SqeOf(req_file, 0)
    /\ ring.sqes[0] = SqeOf(req_file, 1)
    /\ batch_ret = URING_ENTRIES

Destroyed == uring_pc = "destroyed"

\* C13: after uring_init, whatever it returned, and one uring_destroy, the
\* ring descriptor and every mapping uring_init created have each been
\* released exactly once: no close() hit a descriptor that was already
\* closed, and nothing is left open or mapped.
C13_ReleasedExactlyOnce ==
    Destroyed =>
        /\ ~os.fd_open
        /\ os.stale_closes = 0
        /\ os.closes = (IF os.fd >= 0 THEN 1 ELSE 0)
        /\ \A m \in Mappings :
              os.mapped[m] = 0 /\ os.unmaps[m] = os.mmaps[m]

====
